---- MODULE Spec2Model ----
(***************************************************************************)
(* A model of the elm327 client (src/src/lib.rs, src/src/packet.rs).       *)
(*                                                                         *)
(* The session is one sequential async task.  Its control state is the     *)
(* stack ctl of labels, innermost call last; a label names the await point *)
(* or the return point a function of lib.rs is at.  The serial port is the *)
(* environment: an input buffer rx the adapter appends to at any time, an  *)
(* output buffer obuf, and the bytes put on the wire.  Every port          *)
(* operation may fail.  A tokio timeout may fire while the innermost       *)
(* future is pending; it drops every frame above the timer.                *)
(***************************************************************************)
EXTENDS Integers, Sequences, FiniteSets, TLC

VARIABLES
    op,         \* the public function the caller invoked
    ctl,        \* call stack of labels, innermost last; <<>> once op returned
    ret,        \* the value the last return handed to its caller
    stream,     \* every byte the adapter sends in this run (fixed at Init)
    adapter,    \* the bytes the adapter has not sent yet
    rx,         \* the port's input buffer: received, not yet read
    discarded,  \* history: bytes received before the current read began
    delivered,  \* history: bytes port.read returned to the current read call
    obuf,       \* the port's output buffer: written, not yet transmitted
    wire,       \* history: bytes transmitted since write_no_resp was last called
    cmd,        \* write_no_resp: the bytes of format!("{}\r", command)
    buf,        \* read: the accumulation buffer
    strs,       \* read: the lines collected so far
    pred,       \* read: the on_str closure (see OnStr)
    on_str,     \* monitor_all: the closure the caller passed
    predCalls,  \* history: the arguments on_str was invoked with
    n,          \* write_retry / from_path: the attempt counter
    retry,      \* write_retry / from_path: the argument `retry` (from_path: None or a number)
    attempts,   \* history: the outcome of every write_timeout / open attempt
    resp,       \* monitor_all: the result of the monitoring read
    warm,       \* from_path: warm-up reads done in this attempt
    events,     \* history: what the session did, in order
    line,       \* ObdPacket::new: the input line
    packet,     \* ObdPacket::new: the Result it returned; get: Ok of `self.packet`
    lower,      \* ObdPacket::get: the argument `lower`
    upper       \* ObdPacket::get: the argument `upper`

inVars   == <<stream, adapter, rx, discarded, delivered>>
outVars  == <<obuf, wire>>
portVars == <<inVars, outVars>>
readVars == <<buf, strs, predCalls>>
loopVars == <<n, retry, attempts, resp, warm, on_str>>
pktVars  == <<line, packet, lower, upper>>
vars == <<op, ctl, ret, portVars, cmd, readVars, pred, loopVars, events, pktVars>>

----
(* Bounds of the model *)

\* longest byte stream the adapter sends to a bare read
MaxLen == 4
\* the predicate stops at its k-th invocation, k <= MaxStop (0: never)
MaxStop == 2

----
(* Bytes and results *)

CR == 13
LF == 10
GT == 62

\* the bytes a bare read is tried on: CR LF '>' 'A' ' ' and the two bytes of
\* U+00E9 (0xC3 0xA9), each of which alone is not UTF-8
ReadBytes == {13, 10, 62, 65, 32, 195, 169}

BSeq(S, k) == UNION {[1..m -> S] : m \in 0..k}

Front(s) == SubSeq(s, 1, Len(s) - 1)
Last(s) == s[Len(s)]

NoRet == [tag |-> "None", err |-> "", val |-> <<>>]
Ok(v) == [tag |-> "Ok", err |-> "", val |-> v]
Err(e) == [tag |-> "Err", err |-> e, val |-> <<>>]

\* core::str::from_utf8 as String::from_utf8 applies it: the length of the
\* well-formed sequence at the head of b, 0 if there is none
Cont(x) == x >= 128 /\ x <= 191
Utf8Width(b) ==
    LET l == Len(b)
        b1 == b[1]
    IN  IF b1 < 128 THEN 1
        ELSE IF b1 >= 194 /\ b1 <= 223
             THEN IF l >= 2 /\ Cont(b[2]) THEN 2 ELSE 0
        ELSE IF b1 >= 224 /\ b1 <= 239
             THEN IF /\ l >= 3
                     /\ Cont(b[2]) /\ Cont(b[3])
                     /\ (b1 = 224 => b[2] >= 160)
                     /\ (b1 = 237 => b[2] <= 159)
                  THEN 3 ELSE 0
        ELSE IF b1 >= 240 /\ b1 <= 244
             THEN IF /\ l >= 4
                     /\ Cont(b[2]) /\ Cont(b[3]) /\ Cont(b[4])
                     /\ (b1 = 240 => b[2] >= 144)
                     /\ (b1 = 244 => b[2] <= 143)
                  THEN 4 ELSE 0
        ELSE 0

RECURSIVE FromUtf8Ok(_)
FromUtf8Ok(b) ==
    IF b = <<>> THEN TRUE
    ELSE LET w == Utf8Width(b)
         IN  w > 0 /\ FromUtf8Ok(SubSeq(b, w + 1, Len(b)))

----
(* Control *)

Top == ctl[Len(ctl)]
At(l) == ctl # <<>> /\ Top = l
Done == ctl = <<>>

Goto(l) == ctl' = Append(Front(ctl), l)
\* the function at the top returns v to its caller
Return(v) == ctl' = Front(ctl) /\ ret' = v
\* the function at the top calls one that starts at entry, and resumes at back
Call(entry, back) == ctl' = Front(ctl) \o <<back, entry>>

\* an entry of the history: what was done, and on which command
Ev(e) == [e |-> e, cmd |-> cmd]

\* the steps the history keeps, for each public function
Logged ==
    CASE op = "monitor_all" -> {"write_no_resp", "write_no_resp_ok", "read", "read_ret"}
      [] op = "write_retry" -> {"write_timeout", "heard"}
      [] op = "write" -> {"heard"}
      [] op = "write_no_resp" -> {"clear_ok", "clear_err", "write_ok", "write_err",
                                  "flush_ok", "flush_err"}
      [] op = "from_path" -> {"open", "warm_up", "write_timeout"}
      [] OTHER -> {}

Log(es) == events' = events \o SelectSeq(es, LAMBDA x : x.e \in Logged)

----
(* The adapter *)

AdapterSend ==
    /\ adapter # <<>>
    /\ rx' = Append(rx, Head(adapter))
    /\ adapter' = Tail(adapter)
    /\ UNCHANGED <<op, ctl, ret, stream, discarded, delivered, obuf, wire, cmd,
                   readVars, pred, loopVars, events, pktVars>>

\* the commands that reached the adapter whole, CR included
Heard == SelectSeq(events, LAMBDA x : x.e = "heard")

\* the reply the i-th byte of stream belongs to: a reply ends with its '>'
ReplyOf(i) == 1 + Cardinality({j \in 1..(i - 1) : stream[j] = GT})

\* an adapter that only answers: its k-th reply follows the k-th command it
\* heard, and is sent byte by byte at any time after that command
AdapterReply ==
    /\ adapter # <<>>
    /\ ReplyOf(Len(stream) - Len(adapter) + 1) <= Len(Heard)
    /\ rx' = Append(rx, Head(adapter))
    /\ adapter' = Tail(adapter)
    /\ UNCHANGED <<op, ctl, ret, stream, discarded, delivered, obuf, wire, cmd,
                   readVars, pred, loopVars, events, pktVars>>

----
(* Elm327::read *)

\* the on_str closure: pred = k > 0 answers false at its k-th invocation and
\* true otherwise; pred = 0 is |_| true
OnStr(p, k) == k # p

\* ReadStep without `buf = vec![]`: the buffer is never emptied
ReadStep_KeepsBuf(b, s, c, p, calls) ==
    IF c \in {CR, LF, GT}
    THEN LET surfaced == b # <<>> /\ FromUtf8Ok(b)
             s1 == IF surfaced THEN Append(s, b) ELSE s
             calls1 == IF surfaced THEN Append(calls, b) ELSE calls
             stop == surfaced /\ ~OnStr(p, Len(calls1))
         IN  [buf |-> b, strs |-> s1, calls |-> calls1, brk |-> stop \/ c = GT]
    ELSE [buf |-> Append(b, c), strs |-> s, calls |-> calls, brk |-> FALSE]

\* ReadStep that calls on_str and ignores its answer
ReadStep_IgnoresAnswer(b, s, c, p, calls) ==
    IF c \in {CR, LF, GT}
    THEN LET surfaced == b # <<>> /\ FromUtf8Ok(b)
             s1 == IF surfaced THEN Append(s, b) ELSE s
             calls1 == IF surfaced THEN Append(calls, b) ELSE calls
         IN  [buf |-> <<>>, strs |-> s1, calls |-> calls1, brk |-> c = GT]
    ELSE [buf |-> Append(b, c), strs |-> s, calls |-> calls, brk |-> FALSE]

\* ReadStep without the `!buf.is_empty()` test
ReadStep_NoEmptyTest(b, s, c, p, calls) ==
    IF c \in {CR, LF, GT}
    THEN LET surfaced == FromUtf8Ok(b)
             s1 == IF surfaced THEN Append(s, b) ELSE s
             calls1 == IF surfaced THEN Append(calls, b) ELSE calls
             stop == surfaced /\ ~OnStr(p, Len(calls1))
         IN  [buf |-> <<>>, strs |-> s1, calls |-> calls1, brk |-> stop \/ c = GT]
    ELSE [buf |-> Append(b, c), strs |-> s, calls |-> calls, brk |-> FALSE]

\* ReadStep without `b'>' => break`: a prompt ends a line and the scan goes on
ReadStep_PromptGoesOn(b, s, c, p, calls) ==
    IF c \in {CR, LF, GT}
    THEN LET surfaced == b # <<>> /\ FromUtf8Ok(b)
             s1 == IF surfaced THEN Append(s, b) ELSE s
             calls1 == IF surfaced THEN Append(calls, b) ELSE calls
             stop == surfaced /\ ~OnStr(p, Len(calls1))
         IN  [buf |-> <<>>, strs |-> s1, calls |-> calls1, brk |-> stop]
    ELSE [buf |-> Append(b, c), strs |-> s, calls |-> calls, brk |-> FALSE]

\* the match on the byte just read: the new buffer and lines, the arguments
\* on_str has seen, and whether the loop is left
ReadStep(b, s, c, p, calls) ==
    IF c \in {CR, LF, GT}
    THEN LET surfaced == b # <<>> /\ FromUtf8Ok(b)
             s1 == IF surfaced THEN Append(s, b) ELSE s
             calls1 == IF surfaced THEN Append(calls, b) ELSE calls
             stop == surfaced /\ ~OnStr(p, Len(calls1))
         IN  [buf |-> <<>>, strs |-> s1, calls |-> calls1, brk |-> stop \/ c = GT]
    ELSE [buf |-> Append(b, c), strs |-> s, calls |-> calls, brk |-> FALSE]

\* clear(ClearBuffer::Input), then the empty buf and strs
ReadClear ==
    /\ At("rd_clear")
    /\ \E ok \in BOOLEAN :
         IF ok
         THEN /\ Goto("rd_loop")
              /\ rx' = <<>>
              /\ discarded' = discarded \o delivered \o rx
              /\ Log(<<Ev("read")>>)
              /\ UNCHANGED ret
         ELSE /\ Return(Err("Clear"))
              /\ Log(<<Ev("read"), Ev("read_ret")>>)
              /\ discarded' = discarded \o delivered
              /\ UNCHANGED rx
    /\ delivered' = <<>>
    /\ buf' = <<>>
    /\ strs' = <<>>
    /\ predCalls' = <<>>
    /\ UNCHANGED <<op, stream, adapter, outVars, cmd, pred, loopVars, pktVars>>

\* one turn of the loop: port.read gives a byte, the match handles it
ReadByte ==
    /\ At("rd_loop")
    /\ rx # <<>>
    /\ LET c == Head(rx)
           r == ReadStep(buf, strs, c, pred, predCalls)
       IN  /\ rx' = Tail(rx)
           /\ delivered' = Append(delivered, c)
           /\ predCalls' = r.calls
           /\ IF r.brk
              THEN /\ Return(Ok(r.strs))
                   /\ buf' = <<>>
                   /\ strs' = <<>>
                   /\ Log(<<Ev("read_ret")>>)
              ELSE /\ buf' = r.buf
                   /\ strs' = r.strs
                   /\ UNCHANGED <<ctl, ret, events>>
    /\ UNCHANGED <<op, stream, adapter, discarded, outVars, cmd, pred, loopVars, pktVars>>

\* port.read fails: Error::Read, the lines collected so far are dropped
ReadFail ==
    /\ At("rd_loop")
    /\ Return(Err("Read"))
    /\ buf' = <<>>
    /\ strs' = <<>>
    /\ Log(<<Ev("read_ret")>>)
    /\ UNCHANGED <<op, portVars, cmd, predCalls, pred, loopVars, pktVars>>

----
(* Elm327::write_no_resp *)

ATZ == <<65, 84, 90>>
ATMA == <<65, 84, 77, 65>>

\* format!("{}\r", command)
Format(c) == Append(c, CR)

\* the counts port.write may answer for a non-empty slice: all of it, or one
\* byte less, and one byte at least
WriteCounts(bytes) == {k \in {Len(bytes) - 1, Len(bytes)} : k >= 1}

\* a call of port.write: the outcome and the bytes it was given
WriteEv(e, bytes) == [e |-> e, cmd |-> bytes]

\* NrClear with `let _ = self.port.clear(..)`: a failed clear is ignored
NrClear_IgnoresError ==
    /\ At("nr_clear")
    /\ \E ok \in BOOLEAN :
         /\ Goto("nr_write")
         /\ obuf' = IF ok THEN <<>> ELSE obuf
         /\ Log(<<Ev("write_no_resp"), Ev(IF ok THEN "clear_ok" ELSE "clear_err")>>)
         /\ UNCHANGED ret
    /\ wire' = <<>>
    /\ UNCHANGED <<op, inVars, cmd, readVars, pred, loopVars, pktVars>>

\* clear(ClearBuffer::Output)
NrClear ==
    /\ At("nr_clear")
    /\ \E ok \in BOOLEAN :
         IF ok
         THEN /\ Goto("nr_write")
              /\ obuf' = <<>>
              /\ Log(<<Ev("write_no_resp"), Ev("clear_ok")>>)
              /\ UNCHANGED ret
         ELSE /\ Return(Err("Clear"))
              /\ Log(<<Ev("write_no_resp"), Ev("clear_err")>>)
              /\ UNCHANGED obuf
    /\ wire' = <<>>
    /\ UNCHANGED <<op, inVars, cmd, readVars, pred, loopVars, pktVars>>

\* port.write(cmd.as_bytes()).await; the count it answers is dropped
NrWrite ==
    /\ At("nr_write")
    /\ \/ \E k \in WriteCounts(Format(cmd)) :
            /\ obuf' = obuf \o SubSeq(Format(cmd), 1, k)
            /\ Goto("nr_flush")
            /\ Log(<<WriteEv("write_ok", Format(cmd))>>)
            /\ UNCHANGED ret
       \/ /\ Return(Err("Write"))
          /\ Log(<<WriteEv("write_err", Format(cmd))>>)
          /\ UNCHANGED obuf
    /\ UNCHANGED <<op, inVars, wire, cmd, readVars, pred, loopVars, pktVars>>

\* port.flush().await
NrFlush ==
    /\ At("nr_flush")
    /\ \/ /\ wire' = wire \o obuf
          /\ obuf' = <<>>
          /\ Return(Ok(<<>>))
          /\ Log(<<Ev("flush_ok"), Ev("write_no_resp_ok")>>
                    \o (IF \E i \in 1..Len(obuf) : obuf[i] = CR
                        THEN <<Ev("heard")>> ELSE <<>>))
       \/ /\ Return(Err("Flush"))
          /\ Log(<<Ev("flush_err")>>)
          /\ UNCHANGED <<obuf, wire>>
    /\ UNCHANGED <<op, inVars, cmd, readVars, pred, loopVars, pktVars>>

----
(* Elm327::write *)

WriteCall ==
    /\ At("w_call")
    /\ Call("nr_clear", "w_nr")
    /\ UNCHANGED <<op, ret, portVars, cmd, readVars, pred, loopVars, events, pktVars>>

\* `self.write_no_resp(command).await?`, then read(|_| true)
WriteNr ==
    /\ At("w_nr")
    /\ IF ret.tag = "Err"
       THEN /\ Return(ret)
            /\ UNCHANGED pred
       ELSE /\ Call("rd_clear", "w_rd")
            /\ pred' = 0
            /\ UNCHANGED ret
    /\ UNCHANGED <<op, portVars, cmd, readVars, loopVars, events, pktVars>>

WriteRd ==
    /\ At("w_rd")
    /\ Return(ret)
    /\ UNCHANGED <<op, portVars, cmd, readVars, pred, loopVars, events, pktVars>>

----
(* tokio::time::timeout and Elm327::write_timeout *)

\* the labels at which a timeout future waits for the future it wraps
Timers == {"wt_timer", "fp_warm_timer"}

\* Pending without the read: a timer never fires while read awaits a byte
Pending_NotInRead ==
    \/ At("nr_write")
    \/ At("nr_flush")

\* the innermost future is at an await that has not completed
Pending ==
    \/ At("rd_loop") /\ rx = <<>>
    \/ At("nr_write")
    \/ At("nr_flush")

\* the deadline passes: the wrapped future is dropped, Err(Elapsed)
Timeout ==
    /\ Pending
    /\ \E i \in 1..(Len(ctl) - 1) :
         /\ ctl[i] \in Timers
         /\ ctl' = SubSeq(ctl, 1, i)
    /\ ret' = Err("Elapsed")
    /\ buf' = <<>>
    /\ strs' = <<>>
    /\ Log(<<Ev("elapsed")>>)
    /\ UNCHANGED <<op, portVars, cmd, predCalls, pred, loopVars, pktVars>>

\* `.map_err(|_| Error::TimedOut)?`
MapElapsed(r) ==
    IF r.tag = "Err" /\ r.err = "Elapsed" THEN Err("TimedOut") ELSE r

WtCall ==
    /\ At("wt_call")
    /\ Call("w_call", "wt_timer")
    /\ Log(<<Ev("write_timeout")>>)
    /\ UNCHANGED <<op, ret, portVars, cmd, readVars, pred, loopVars, pktVars>>

WtTimer ==
    /\ At("wt_timer")
    /\ Return(MapElapsed(ret))
    /\ UNCHANGED <<op, portVars, cmd, readVars, pred, loopVars, events, pktVars>>

----
(* Elm327::write_retry *)

\* WriteRetryMatch with `n > retry` for `n >= retry`
WriteRetryMatch_OneMore(r, k, max) ==
    IF r.tag = "Ok" THEN [done |-> TRUE, ret |-> r, n |-> k]
    ELSE IF r.err = "TimedOut"
         THEN IF k > max
              THEN [done |-> TRUE, ret |-> Err("TimedOut"), n |-> k]
              ELSE [done |-> FALSE, ret |-> r, n |-> k + 1]
         ELSE [done |-> TRUE, ret |-> r, n |-> k]

\* WriteRetryMatch that treats every error as it treats TimedOut
WriteRetryMatch_AnyError(r, k, max) ==
    IF r.tag = "Ok" THEN [done |-> TRUE, ret |-> r, n |-> k]
    ELSE IF k >= max
         THEN [done |-> TRUE, ret |-> r, n |-> k]
         ELSE [done |-> FALSE, ret |-> r, n |-> k + 1]

\* the match on what write_timeout returned, with counter k and ceiling max:
\* whether write_retry returns, what it returns, and the counter
WriteRetryMatch(r, k, max) ==
    IF r.tag = "Ok" THEN [done |-> TRUE, ret |-> r, n |-> k]
    ELSE IF r.err = "TimedOut"
         THEN IF k >= max
              THEN [done |-> TRUE, ret |-> Err("TimedOut"), n |-> k]
              ELSE [done |-> FALSE, ret |-> r, n |-> k + 1]
         ELSE [done |-> TRUE, ret |-> r, n |-> k]

\* WrCall with `let mut n = 0`
WrCall_FromZero ==
    /\ At("wr_call")
    /\ n' = 0
    /\ Call("wt_call", "wr_match")
    /\ UNCHANGED <<op, ret, portVars, cmd, readVars, pred, retry, attempts, resp,
                   warm, on_str, events, pktVars>>

\* `let mut n = 1` and the first turn of the loop
WrCall ==
    /\ At("wr_call")
    /\ n' = 1
    /\ Call("wt_call", "wr_match")
    /\ UNCHANGED <<op, ret, portVars, cmd, readVars, pred, retry, attempts, resp,
                   warm, on_str, events, pktVars>>

WrMatch ==
    /\ At("wr_match")
    /\ attempts' = Append(attempts, ret)
    /\ LET m == WriteRetryMatch(ret, n, retry)
       IN  /\ n' = m.n
           /\ IF m.done
              THEN Return(m.ret)
              ELSE Call("wt_call", "wr_match") /\ UNCHANGED ret
    /\ UNCHANGED <<op, portVars, cmd, readVars, pred, retry, resp, warm, on_str,
                   events, pktVars>>

----
(* Elm327::monitor_all *)

\* `self.write("").await?; resp`
MonitorResult(r, stop) == IF stop.tag = "Err" THEN stop ELSE r

\* `self.write_no_resp("ATMA").await?`
MaCall ==
    /\ At("ma_call")
    /\ cmd' = ATMA
    /\ Call("nr_clear", "ma_nr")
    /\ UNCHANGED <<op, ret, portVars, readVars, pred, loopVars, events, pktVars>>

\* `let resp = self.read(on_str).await`
MaNr ==
    /\ At("ma_nr")
    /\ IF ret.tag = "Err"
       THEN /\ Return(ret)
            /\ UNCHANGED pred
       ELSE /\ Call("rd_clear", "ma_rd")
            /\ pred' = on_str
            /\ UNCHANGED ret
    /\ UNCHANGED <<op, portVars, cmd, readVars, loopVars, events, pktVars>>

\* MaRd with `self.read(on_str).await?`: a failed read returns at once
MaRd_ReturnsOnError ==
    /\ At("ma_rd")
    /\ resp' = ret
    /\ IF ret.tag = "Err"
       THEN Return(ret) /\ UNCHANGED cmd
       ELSE cmd' = <<>> /\ Call("w_call", "ma_stop") /\ UNCHANGED ret
    /\ UNCHANGED <<op, portVars, readVars, pred, n, retry, attempts, warm,
                   on_str, events, pktVars>>

\* the stop command: write("")
MaRd ==
    /\ At("ma_rd")
    /\ resp' = ret
    /\ cmd' = <<>>
    /\ Call("w_call", "ma_stop")
    /\ UNCHANGED <<op, ret, portVars, readVars, pred, n, retry, attempts, warm,
                   on_str, events, pktVars>>

MaStop ==
    /\ At("ma_stop")
    /\ Return(MonitorResult(resp, ret))
    /\ UNCHANGED <<op, portVars, cmd, readVars, pred, loopVars, events, pktVars>>

----
(* Elm327::from_path *)

\* the Option<u32> None, as a number no u32 is
None == -1

\* `retry.unwrap_or(3)`
UnwrapOr3(r) == IF r = None THEN 3 ELSE r

\* GivesUp with `n > retry`
GivesUp_OneMore(k, max) == k > max

\* `if n >= retry { break Err(Error::TimedOut) }`
GivesUp(k, max) == k >= max

\* the match on what write_timeout("ATZ") returned: is the session returned
AtzAccepted(r) == r.tag = "Ok"

\* `let mut n = 0`
FpCall ==
    /\ At("fp_call")
    /\ n' = 0
    /\ Goto("fp_loop")
    /\ UNCHANGED <<op, ret, portVars, cmd, readVars, pred, retry, attempts, resp,
                   warm, on_str, events, pktVars>>

\* the head of the loop: the ceiling, then Serial::from_path
FpLoop ==
    /\ At("fp_loop")
    /\ IF GivesUp(n, UnwrapOr3(retry))
       THEN /\ Return(Err("TimedOut"))
            /\ UNCHANGED <<inVars, outVars, n, attempts, warm, events>>
       ELSE /\ Log(<<Ev("open")>>)
            /\ \E ok \in BOOLEAN :
                 IF ok
                 THEN /\ Goto("fp_warm")
                      /\ warm' = 0
                      /\ rx' = <<>>
                      /\ discarded' = discarded \o delivered \o rx
                      /\ delivered' = <<>>
                      /\ obuf' = <<>>
                      /\ UNCHANGED <<ret, n, attempts, stream, adapter, wire>>
                 ELSE /\ n' = n + 1
                      /\ attempts' = Append(attempts, Err("Serial"))
                      /\ UNCHANGED <<ctl, ret, inVars, outVars, warm>>
    /\ UNCHANGED <<op, cmd, readVars, pred, retry, resp, on_str, pktVars>>

\* FpWarm with `for _ in 0..=n`: one warm-up read more
FpWarm_OneMore ==
    /\ At("fp_warm")
    /\ IF warm <= n
       THEN /\ Call("rd_clear", "fp_warm_timer")
            /\ pred' = 0
            /\ Log(<<Ev("warm_up")>>)
            /\ UNCHANGED cmd
       ELSE /\ Call("wt_call", "fp_atz")
            /\ cmd' = ATZ
            /\ UNCHANGED <<pred, events>>
    /\ UNCHANGED <<op, ret, portVars, readVars, loopVars, pktVars>>

\* `for _ in 0..n`: a warm-up read under a timeout, or past the loop the
\* reset command
FpWarm ==
    /\ At("fp_warm")
    /\ IF warm < n
       THEN /\ Call("rd_clear", "fp_warm_timer")
            /\ pred' = 0
            /\ Log(<<Ev("warm_up")>>)
            /\ UNCHANGED cmd
       ELSE /\ Call("wt_call", "fp_atz")
            /\ cmd' = ATZ
            /\ UNCHANGED <<pred, events>>
    /\ UNCHANGED <<op, ret, portVars, readVars, loopVars, pktVars>>

\* `let _ =`: whatever the warm-up read gave is dropped
FpWarmTimer ==
    /\ At("fp_warm_timer")
    /\ warm' = warm + 1
    /\ Goto("fp_warm")
    /\ UNCHANGED <<op, ret, portVars, cmd, readVars, pred, n, retry, attempts, resp,
                   on_str, events, pktVars>>

\* FpAtz that retries after a timeout only and returns any other error
FpAtz_SurfacesErrors ==
    /\ At("fp_atz")
    /\ IF AtzAccepted(ret)
       THEN /\ Return(Ok(<<>>))
            /\ UNCHANGED <<n, attempts>>
       ELSE /\ n' = n + 1
            /\ attempts' = Append(attempts, ret)
            /\ IF ret.err = "TimedOut"
               THEN Goto("fp_loop") /\ UNCHANGED ret
               ELSE Return(ret)
    /\ UNCHANGED <<op, portVars, cmd, readVars, pred, retry, resp, warm, on_str,
                   events, pktVars>>

\* the match on what write_timeout("ATZ") returned
FpAtz ==
    /\ At("fp_atz")
    /\ IF AtzAccepted(ret)
       THEN /\ Return(Ok(<<>>))
            /\ UNCHANGED <<n, attempts>>
       ELSE /\ n' = n + 1
            /\ attempts' = Append(attempts, ret)
            /\ Goto("fp_loop")
            /\ UNCHANGED ret
    /\ UNCHANGED <<op, portVars, cmd, readVars, pred, retry, resp, warm, on_str,
                   events, pktVars>>

----
(* A caller that invokes read alone *)

InitIdle ==
    /\ ret = NoRet
    /\ rx = <<>> /\ discarded = <<>> /\ delivered = <<>>
    /\ obuf = <<>> /\ wire = <<>>
    /\ buf = <<>> /\ strs = <<>> /\ predCalls = <<>>
    /\ n = 0 /\ attempts = <<>> /\ resp = NoRet /\ warm = 0 /\ on_str = 0
    /\ events = <<>>
    /\ packet = NoRet

InitRead ==
    /\ InitIdle
    /\ op = "read"
    /\ cmd = <<>>
    /\ ctl = <<"rd_clear">>
    /\ stream \in BSeq(ReadBytes, MaxLen)
    /\ adapter = stream
    /\ pred \in 0..MaxStop
    /\ retry = 0
    /\ line = <<>> /\ lower = 0 /\ upper = 0

NextRead == AdapterSend \/ ReadClear \/ ReadByte \/ ReadFail

SpecRead == InitRead /\ [][NextRead]_vars

----
(* A caller that invokes write_retry *)

\* the highest ceiling write_retry and from_path are called with
MaxAttempts == 3
\* longest byte stream the adapter sends while a command is retried
MaxReply == 2

\* 'A' and '>'
ReplyBytes == {65, 62}

InitRetry ==
    /\ InitIdle
    /\ op = "write_retry"
    /\ cmd = ATZ
    /\ ctl = <<"wr_call">>
    /\ stream \in BSeq(ReplyBytes, MaxReply)
    /\ adapter = stream
    /\ pred = 0
    /\ retry \in 0..MaxAttempts
    /\ line = <<>> /\ lower = 0 /\ upper = 0

Transport == NrClear \/ NrWrite \/ NrFlush \/ ReadClear \/ ReadByte \/ ReadFail

Writes == WriteCall \/ WriteNr \/ WriteRd

NextRetry ==
    \/ AdapterSend
    \/ Transport
    \/ Writes
    \/ WtCall \/ WtTimer \/ Timeout
    \/ WrCall \/ WrMatch

SpecRetry == InitRetry /\ [][NextRetry]_vars

----
(* A caller that invokes write_no_resp *)

\* longest command given to write_no_resp
MaxCmd == 3

\* 'A' and 'T'
CmdBytes == {65, 84}

InitSend ==
    /\ InitIdle
    /\ op = "write_no_resp"
    /\ cmd \in BSeq(CmdBytes, MaxCmd)
    /\ ctl = <<"nr_clear">>
    /\ stream = <<>>
    /\ adapter = <<>>
    /\ pred = 0
    /\ retry = 0
    /\ line = <<>> /\ lower = 0 /\ upper = 0

NextSend == NrClear \/ NrWrite \/ NrFlush

SpecSend == InitSend /\ [][NextSend]_vars

----
(* A caller that invokes write or write_retry on an adapter that answers *)

\* most replies the adapter has to give
MaxReplies == 2

\* "A>" and "A\rA>"
Replies == {<<65, 62>>, <<65, 13, 65, 62>>}

RECURSIVE Flatten(_)
Flatten(ss) == IF ss = <<>> THEN <<>> ELSE Head(ss) \o Flatten(Tail(ss))

InitDialog ==
    /\ InitIdle
    /\ \/ op = "write" /\ ctl = <<"w_call">> /\ retry = 0
       \/ op = "write_retry" /\ ctl = <<"wr_call">> /\ retry \in 1..MaxAttempts
    /\ cmd = ATZ
    /\ \E rs \in BSeq(Replies, MaxReplies) : stream = Flatten(rs)
    /\ adapter = stream
    /\ pred = 0
    /\ line = <<>> /\ lower = 0 /\ upper = 0

NextDialog ==
    \/ AdapterReply
    \/ Transport
    \/ Writes
    \/ WtCall \/ WtTimer \/ Timeout
    \/ WrCall \/ WrMatch

SpecDialog == InitDialog /\ [][NextDialog]_vars

----
(* A caller that invokes monitor_all *)

\* longest byte stream the adapter sends while monitoring
MaxMon == 3

\* 'A', CR and '>'
MonBytes == {65, 13, 62}

InitMonitor ==
    /\ InitIdle
    /\ op = "monitor_all"
    /\ cmd = <<>>
    /\ ctl = <<"ma_call">>
    /\ stream \in BSeq(MonBytes, MaxMon)
    /\ adapter = stream
    /\ pred = 0
    /\ on_str \in 0..MaxStop
    /\ retry = 0
    /\ line = <<>> /\ lower = 0 /\ upper = 0

NextMonitor ==
    \/ AdapterSend
    \/ Transport
    \/ Writes
    \/ MaCall \/ MaNr \/ MaRd \/ MaStop

SpecMonitor == InitMonitor /\ [][NextMonitor]_vars

----
(* A caller that invokes from_path *)

InitConnect ==
    /\ InitIdle
    /\ op = "from_path"
    /\ cmd = <<>>
    /\ ctl = <<"fp_call">>
    /\ stream \in BSeq(ReplyBytes, MaxReply)
    /\ adapter = stream
    /\ pred = 0
    /\ retry \in {None} \cup 0..MaxAttempts
    /\ line = <<>> /\ lower = 0 /\ upper = 0

NextConnect ==
    \/ AdapterSend
    \/ Transport
    \/ Writes
    \/ WtCall \/ WtTimer \/ Timeout
    \/ FpCall \/ FpLoop \/ FpWarm \/ FpWarmTimer \/ FpAtz

SpecConnect == InitConnect /\ [][NextConnect]_vars

\* what the executor and the timer do without the help of the adapter or of
\* a failing port: the task runs while it can, and a deadline passes while
\* the task is pending
Scheduled ==
    \/ NrClear \/ NrWrite \/ NrFlush \/ ReadClear \/ ReadByte
    \/ Writes
    \/ WtCall \/ WtTimer \/ Timeout
    \/ FpCall \/ FpLoop \/ FpWarm \/ FpWarmTimer \/ FpAtz

\* an adapter that sends nothing, or its prompt alone
QuietStreams == {<<>>, <<GT>>}

\* from_path on a quiet link
InitConnectQuiet ==
    /\ InitIdle
    /\ op = "from_path"
    /\ cmd = <<>>
    /\ ctl = <<"fp_call">>
    /\ stream \in QuietStreams
    /\ adapter = stream
    /\ pred = 0
    /\ retry \in {None} \cup 0..MaxAttempts
    /\ line = <<>> /\ lower = 0 /\ upper = 0

SpecConnectQuiet == InitConnectQuiet /\ [][NextConnect]_vars

\* from_path under a runtime that polls a runnable task and fires its timers
SpecConnectFair == SpecConnectQuiet /\ WF_vars(Scheduled)

----
(* ObdPacket::new (packet.rs).  A str is the sequence of its characters; a   *)
(* u64 is the sequence of its 16 hexadecimal digits, most significant first. *)

HexUpper == <<"0", "1", "2", "3", "4", "5", "6", "7", "8", "9", "A", "B", "C", "D", "E", "F">>
HexLower == <<"0", "1", "2", "3", "4", "5", "6", "7", "8", "9", "a", "b", "c", "d", "e", "f">>

IsHexDigit(ch) == \E i \in 1..16 : HexUpper[i] = ch \/ HexLower[i] = ch
HexValue(ch) == (CHOOSE i \in 1..16 : HexUpper[i] = ch \/ HexLower[i] = ch) - 1

\* s.split(d): the pieces of s between the occurrences of d, empty ones kept
RECURSIVE SplitAcc(_, _, _)
SplitAcc(s, d, cur) ==
    IF s = <<>> THEN <<cur>>
    ELSE IF Head(s) = d
         THEN <<cur>> \o SplitAcc(Tail(s), d, <<>>)
         ELSE SplitAcc(Tail(s), d, Append(cur, Head(s)))

Split(s, d) == SplitAcc(s, d, <<>>)

\* `while parts.len() > 8 { parts.remove(0) }`
RECURSIVE DropFront(_)
DropFront(parts) == IF Len(parts) > 8 THEN DropFront(Tail(parts)) ELSE parts

\* `while parts.len() < 8 { parts.push("00") }`
RECURSIVE PadBack(_)
PadBack(parts) ==
    IF Len(parts) < 8 THEN PadBack(Append(parts, <<"0", "0">>)) ELSE parts

\* Normalize that puts the missing "00" tokens in front
RECURSIVE PadFront(_)
PadFront(parts) ==
    IF Len(parts) < 8 THEN PadFront(<<(<<"0", "0">>)>> \o parts) ELSE parts

Normalize_PadsFront(parts) == PadFront(DropFront(parts))

\* Normalize that drops the tokens in excess at the back (`parts.pop()`)
Normalize_DropsBack(parts) ==
    PadBack(IF Len(parts) > 8 THEN SubSeq(parts, 1, 8) ELSE parts)

\* the two loops that leave exactly 8 tokens
Normalize(parts) == PadBack(DropFront(parts))

\* parts.join("")
RECURSIVE Join(_)
Join(parts) == IF parts = <<>> THEN <<>> ELSE Head(parts) \o Join(Tail(parts))

RECURSIVE StripZeros(_)
StripZeros(ds) ==
    IF ds # <<>> /\ Head(ds) = 0 THEN StripZeros(Tail(ds)) ELSE ds

\* u64::from_str_radix(str, 16).map_err(|_| Error::Conversion): an optional
\* '+', then one hex digit or more; a value of more than 64 bits overflows
FromStrRadix16(str) ==
    LET body == IF str # <<>> /\ Head(str) = "+" THEN Tail(str) ELSE str
    IN  IF body = <<>> \/ \E i \in 1..Len(body) : ~IsHexDigit(body[i])
        THEN Err("Conversion")
        ELSE LET sig == StripZeros([i \in 1..Len(body) |-> HexValue(body[i])])
             IN  IF Len(sig) > 16
                 THEN Err("Conversion")
                 ELSE Ok([i \in 1..(16 - Len(sig)) |-> 0] \o sig)

\* the tokens the packet is built from
PacketTokens(s) == Normalize(Split(Split(s, "<")[1], " "))

ObdPacketNew(s) == FromStrRadix16(Join(PacketTokens(s)))

PacketNew ==
    /\ At("pk_new")
    /\ packet' = ObdPacketNew(line)
    /\ Return(ObdPacketNew(line))
    /\ UNCHANGED <<op, portVars, cmd, readVars, pred, loopVars, events, line,
                   lower, upper>>

----
(* A caller that builds a packet from a line *)

\* most characters in a line made of arbitrary characters
MaxLine == 3
\* most tokens in a line made of byte tokens
MaxTokens == 9

LineChars == {"1", "F", " ", "<", "x"}
ByteTokens == {<<"4", "1">>, <<"0", "C">>, <<"f", "8">>}

\* tokens.join(" ")
RECURSIVE JoinSpaced(_)
JoinSpaced(ts) ==
    IF Len(ts) <= 1 THEN Join(ts)
    ELSE Head(ts) \o <<" ">> \o JoinSpaced(Tail(ts))

\* "41 0C 1A F8 <comment"
ExampleLine ==
    <<"4", "1", " ", "0", "C", " ", "1", "A", " ", "F", "8", " ",
      "<", "c", "o", "m", "m", "e", "n", "t">>

InitPacket ==
    /\ InitIdle
    /\ op = "ObdPacket::new"
    /\ cmd = <<>>
    /\ ctl = <<"pk_new">>
    /\ stream = <<>>
    /\ adapter = <<>>
    /\ pred = 0
    /\ retry = 0
    /\ line \in BSeq(LineChars, MaxLine)
                  \cup {JoinSpaced(ts) : ts \in BSeq(ByteTokens, MaxTokens)}
                  \cup {ExampleLine}
    /\ lower = 0 /\ upper = 0

NextPacket == PacketNew

SpecPacket == InitPacket /\ [][NextPacket]_vars

----
(* ObdPacket::get (packet.rs).  For the shifts and the mask a u64 is taken   *)
(* as the function from bit 0..63 (bit 0 least significant) to 0 or 1.       *)

BitIdx == 0..63

\* the bits of the u64 of 16 hexadecimal digits ds
Bits(ds) == [i \in BitIdx |-> (ds[16 - (i \div 4)] \div (2 ^ (i % 4))) % 2]

\* the 16 hexadecimal digits of the u64 of bits b
Digits(b) ==
    [k \in 1..16 |->
        LET i == 4 * (16 - k)
        IN  b[i] + 2 * b[i + 1] + 4 * b[i + 2] + 8 * b[i + 3]]

Zero64 == [i \in BitIdx |-> 0]

\* `1 << k` on u64, k <= 63 (the literal takes the type of `mask`)
Shl1(k) == [i \in BitIdx |-> IF i = k THEN 1 ELSE 0]
\* `x >> k` on u64, k <= 63
Shr(x, k) == [i \in BitIdx |-> IF i + k <= 63 THEN x[i + k] ELSE 0]
BitOr(x, y) == [i \in BitIdx |-> IF x[i] = 1 \/ y[i] = 1 THEN 1 ELSE 0]
BitAnd(x, y) == [i \in BitIdx |-> IF x[i] = 1 /\ y[i] = 1 THEN 1 ELSE 0]

\* `for i in lower..=upper { mask |= 1 << (i - lower); }` from i on
RECURSIVE MaskLoop(_, _, _, _)
MaskLoop(mask, i, lo, up) ==
    IF i > up THEN mask
    ELSE MaskLoop(BitOr(mask, Shl1(i - lo)), i + 1, lo, up)

UpperMsg == "Upper bound must be less than 64."
\* (the message of the source has upper between backquotes)
LowerMsg == "Lower bound must be less than the lesser of 63 or upper."

\* get with the range `lower..upper`, which leaves bit `upper` out
Get_ExclusiveUpper(p, lo, up) ==
    IF up > 63 THEN Err(UpperMsg)
    ELSE IF lo > 63 \/ lo > up THEN Err(LowerMsg)
    ELSE Ok(Digits(BitAnd(MaskLoop(Zero64, lo, lo, up - 1), Shr(Bits(p), lo))))

\* get(&self, lower, upper) on the packet of digits p; an Err carries the
\* message of its Error::Packet
Get(p, lo, up) ==
    IF up > 63 THEN Err(UpperMsg)
    ELSE IF lo > 63 \/ lo > up THEN Err(LowerMsg)
    ELSE Ok(Digits(BitAnd(MaskLoop(Zero64, lo, lo, up), Shr(Bits(p), lo))))

PacketGet ==
    /\ At("pk_get")
    /\ Return(Get(packet.val, lower, upper))
    /\ UNCHANGED <<op, portVars, cmd, readVars, pred, loopVars, events, pktVars>>

----
(* A caller that reads a bit range of a packet *)

\* the bounds given to get are 0..MaxBound and the greatest u8
MaxBound == 65
U8Max == 255
GetBounds == 0..MaxBound \cup {U8Max}

\* 0x00000000410C1AF8
ExamplePacket == <<0, 0, 0, 0, 0, 0, 0, 0, 4, 1, 0, 12, 1, 10, 15, 8>>
\* the packets get is applied to: the example, u64::MAX, 0x8000000000000001,
\* 0x0123456789ABCDEF
Packets ==
    { ExamplePacket,
      [k \in 1..16 |-> 15],
      <<8, 0, 0, 0, 0, 0, 0, 0, 0, 0, 0, 0, 0, 0, 0, 1>>,
      [k \in 1..16 |-> k - 1] }

InitGet ==
    /\ ret = NoRet
    /\ rx = <<>> /\ discarded = <<>> /\ delivered = <<>>
    /\ obuf = <<>> /\ wire = <<>>
    /\ buf = <<>> /\ strs = <<>> /\ predCalls = <<>>
    /\ n = 0 /\ attempts = <<>> /\ resp = NoRet /\ warm = 0 /\ on_str = 0
    /\ events = <<>>
    /\ op = "ObdPacket::get"
    /\ cmd = <<>>
    /\ ctl = <<"pk_get">>
    /\ stream = <<>>
    /\ adapter = <<>>
    /\ pred = 0
    /\ retry = 0
    /\ line = <<>>
    /\ \E p \in Packets : packet = Ok(p)
    /\ lower \in GetBounds
    /\ upper \in GetBounds

NextGet == PacketGet

SpecGet == InitGet /\ [][NextGet]_vars

----
(* What read is to return, stated on the bytes it was given *)

\* the runs of s that a CR, LF or '>' ends, in order; cur is the run so far
RECURSIVE Runs(_, _)
Runs(s, cur) ==
    IF s = <<>> THEN <<>>
    ELSE IF Head(s) \in {CR, LF, GT}
         THEN <<cur>> \o Runs(Tail(s), <<>>)
         ELSE Runs(Tail(s), Append(cur, Head(s)))

IsLine(r) == r # <<>> /\ FromUtf8Ok(r)
Lines(s) == SelectSeq(Runs(s, <<>>), IsLine)

OnlySpaces(r) == \A i \in 1..Len(r) : r[i] = 32
IsSpaceLine(r) == r # <<>> /\ OnlySpaces(r)

ReadOk == op = "read" /\ Done /\ ret.tag = "Ok"

\* C1: a read whose predicate is always true returns Ok only on a delivered
\* byte sequence that ends with its first '>', and then returns exactly the
\* non-empty, valid UTF-8 runs of that sequence, in arrival order.
C1_ReadReturnsLines ==
    (ReadOk /\ pred = 0) =>
        /\ delivered # <<>>
        /\ Last(delivered) = GT
        /\ \A i \in 1..(Len(delivered) - 1) : delivered[i] # GT
        /\ ret.val = Lines(delivered)
        /\ \A i \in 1..Len(ret.val) : ret.val[i] # <<>> /\ FromUtf8Ok(ret.val[i])

\* two different lines were returned, in the order they arrived
C1_Witness ==
    /\ ReadOk /\ pred = 0
    /\ ret.val = <<<<65>>, <<32>>>>

\* C2: when the predicate answers false on the k-th surfaced line, read
\* returns Ok with exactly the k lines surfaced, the last byte it read is the
\* delimiter that ended the k-th line, and every later byte of the stream is
\* still in the port or with the adapter.
C2_PredicateStops ==
    (ReadOk /\ pred > 0 /\ Len(predCalls) = pred) =>
        /\ ret.val = predCalls
        /\ Len(ret.val) = pred
        /\ ret.val = Lines(delivered)
        /\ Len(Lines(Front(delivered))) = pred - 1
        /\ stream = discarded \o delivered \o rx \o adapter

\* stopped at the second line of a stream that holds no '>' at all
C2_Witness ==
    /\ ReadOk /\ pred = 2
    /\ Len(ret.val) = 2
    /\ \A i \in 1..Len(stream) : stream[i] # GT

\* C7 as claimed: no line of whitespace only is returned or shown to the
\* predicate.
C7_NoWhitespaceLine ==
    /\ \A i \in 1..Len(predCalls) : ~OnlySpaces(predCalls[i])
    /\ ReadOk => \A i \in 1..Len(ret.val) : ~OnlySpaces(ret.val[i])

\* C7 amended: no empty line is collected, returned or shown to the
\* predicate; a run of spaces is not trimmed, it is a line like any other.
C7_NoEmptyLine ==
    /\ \A i \in 1..Len(predCalls) : predCalls[i] # <<>>
    /\ \A i \in 1..Len(strs) : strs[i] # <<>>
    /\ ReadOk => \A i \in 1..Len(ret.val) : ret.val[i] # <<>>
    /\ (ReadOk /\ pred = 0) =>
           SelectSeq(ret.val, OnlySpaces) = SelectSeq(Runs(delivered, <<>>), IsSpaceLine)

\* an empty run and a run of one space were read, and the space was returned
C7_Witness ==
    /\ ReadOk
    /\ \E i \in 1..(Len(delivered) - 1) :
           delivered[i] \in {CR, LF} /\ delivered[i + 1] \in {CR, LF, GT}
    /\ \E i \in 1..Len(ret.val) : ret.val[i] = <<32>>

----
(* write_retry *)

CountEv(e) == Cardinality({i \in 1..Len(events) : events[i].e = e})

TimedOut == Err("TimedOut")

\* C3: with a ceiling N >= 1, write_retry never calls write_timeout more than
\* N times, calls it again only after a timeout, and returns what its last
\* call returned: TimedOut only after N calls that all timed out, a success
\* at the call that produced it.
C3_RetryAttempts ==
    (op = "write_retry" /\ retry >= 1) =>
        /\ CountEv("write_timeout") <= retry
        /\ \A i \in 1..(Len(attempts) - 1) : attempts[i] = TimedOut
        /\ Done =>
             /\ CountEv("write_timeout") = Len(attempts)
             /\ ret = Last(attempts)
             /\ (ret = TimedOut => Len(attempts) = retry)

\* two timeouts, then the third attempt succeeds and its lines are returned
C3_Witness ==
    /\ op = "write_retry" /\ Done /\ retry = 3
    /\ attempts = <<TimedOut, TimedOut, Ok(<<<<65>>>>)>>
    /\ ret = Ok(<<<<65>>>>)

\* C4: an attempt that fails with an error other than TimedOut is the last
\* one: write_retry has returned that error and called write_timeout no more.
C4_ErrorAborts ==
    op = "write_retry" =>
        \A i \in 1..Len(attempts) :
            (attempts[i].tag = "Err" /\ attempts[i] # TimedOut) =>
                /\ i = Len(attempts)
                /\ Done
                /\ ret = attempts[i]
                /\ CountEv("write_timeout") = i

\* the second of three allowed attempts failed at the flush
C4_Witness ==
    /\ op = "write_retry" /\ Done /\ retry = 3
    /\ attempts = <<TimedOut, Err("Flush")>>

----
(* monitor_all *)

AtmaSent ==
    \E i \in 1..Len(events) : events[i] = [e |-> "write_no_resp_ok", cmd |-> ATMA]

\* C5: when monitor_all returns after ATMA was sent, the monitoring read has
\* returned and after it write_no_resp("") was called; and if that call
\* succeeded, the read to the prompt followed it, whatever the monitoring
\* read had returned.
C5_StopAlwaysIssued ==
    (op = "monitor_all" /\ Done /\ AtmaSent) =>
        /\ Len(events) \in {5, 8}
        /\ events[3] = [e |-> "read", cmd |-> ATMA]
        /\ events[4] = [e |-> "read_ret", cmd |-> ATMA]
        /\ events[5] = [e |-> "write_no_resp", cmd |-> <<>>]
        /\ Len(events) = 8 =>
             /\ events[6] = [e |-> "write_no_resp_ok", cmd |-> <<>>]
             /\ events[7] = [e |-> "read", cmd |-> <<>>]
             /\ events[8] = [e |-> "read_ret", cmd |-> <<>>]
        /\ Len(events) = 5 => ret.tag = "Err" /\ ret.err \in {"Clear", "Write", "Flush"}

\* the monitoring read failed, and the stop command was sent and answered
C5_Witness ==
    /\ op = "monitor_all" /\ Done /\ AtmaSent
    /\ resp = Err("Read")
    /\ Len(events) = 8
    /\ wire = <<CR>>

\* C6: monitor_all returns what its monitoring read returned.
C6_ReturnsMonitoringRead ==
    (op = "monitor_all" /\ Done /\ AtmaSent) => ret = resp

----
(* from_path *)

\* the ceiling from_path was called with: 3 when none was given
Ceiling == IF retry = None THEN 3 ELSE retry

\* C8: from_path opens the port at most as many times as its ceiling says (3
\* by default), failed opens and failed resets counted alike; it returns an
\* error only after exactly that many attempts, all failed, and the error is
\* TimedOut; with a ceiling of 0 it opens nothing.
C8_ConnectCeiling ==
    op = "from_path" =>
        /\ CountEv("open") <= Ceiling
        /\ Len(attempts) <= CountEv("open")
        /\ (Done /\ ret.tag = "Err") =>
             /\ ret = TimedOut
             /\ CountEv("open") = Ceiling
             /\ Len(attempts) = Ceiling
        /\ (Done /\ ret.tag = "Ok") => CountEv("open") = Len(attempts) + 1

\* with the default ceiling: three attempts, failed at the open and at the
\* reset, then TimedOut
C8_Witness ==
    /\ op = "from_path" /\ Done /\ retry = None
    /\ ret = TimedOut
    /\ CountEv("open") = 3
    /\ \E i, j \in 1..3 : attempts[i] = Err("Serial") /\ attempts[j] = TimedOut

\* C9 as claimed: a failure that is not a timeout ends from_path, which
\* returns it.
C9_OnlyTimeoutRetried ==
    op = "from_path" =>
        \A i \in 1..Len(attempts) :
            attempts[i] # TimedOut =>
                i = Len(attempts) /\ Done /\ ret = attempts[i]

\* C9 amended: every failed attempt, whatever its error, adds one to the
\* counter and is followed by another attempt while the counter is below the
\* ceiling; from_path returns no error but TimedOut, and that only once
\* `retry` attempts have failed.
C9_EveryFailureRetried ==
    op = "from_path" =>
        /\ n = Len(attempts)
        /\ Len(attempts) <= Ceiling
        /\ Done => \/ ret = Ok(<<>>) /\ Len(attempts) < Ceiling
                   \/ ret = TimedOut /\ Len(attempts) = Ceiling
        /\ (~Done /\ Len(attempts) = Ceiling) => (At("fp_call") \/ At("fp_loop"))

\* connected at the third attempt, after an open and a reset had failed with
\* errors that are no timeouts
C9_Witness ==
    /\ op = "from_path" /\ Done /\ retry = 3
    /\ ret = Ok(<<>>)
    /\ attempts = <<Err("Serial"), Err("Read")>>

----
(* ObdPacket::new *)

IsTokenLine(l) ==
    /\ Len(l) % 3 = 2
    /\ \A i \in 1..Len(l) : IF i % 3 = 0 THEN l[i] = " " ELSE IsHexDigit(l[i])

TokenCount(l) == (Len(l) + 1) \div 3

\* the value of the digit of byte token k (1 <= k) of l at place d (1 or 2)
TokenDigit(l, k, d) == HexValue(l[3 * (k - 1) + d])

\* the 16 digits of the big-endian value of 8 byte tokens of l: the last 8
\* when there are more, the tokens and then zero bytes when there are fewer
ExpectedDigits(l) ==
    LET cnt == TokenCount(l)
        skip == IF cnt > 8 THEN cnt - 8 ELSE 0
    IN  [i \in 1..16 |->
            LET k == skip + ((i + 1) \div 2)
            IN  IF k <= cnt THEN TokenDigit(l, k, 2 - (i % 2)) ELSE 0]

\* C11: a line of n >= 1 two-hex-digit tokens separated by single spaces is
\* parsed to the big-endian value of 8 bytes: the last 8 tokens when n > 8,
\* the n tokens followed by 8 - n zero bytes when n < 8.
C11_TokensToPacket ==
    (op = "ObdPacket::new" /\ Done /\ IsTokenLine(line)) =>
        packet = Ok(ExpectedDigits(line))

\* nine tokens were given, the first differs from the others and is dropped
C11_Witness ==
    /\ op = "ObdPacket::new" /\ Done
    /\ IsTokenLine(line) /\ TokenCount(line) = 9
    /\ line[1] = "4" /\ line[4] = "f"
    /\ packet = Ok(<<15, 8, 0, 12, 0, 12, 0, 12, 0, 12, 0, 12, 0, 12, 0, 12>>)

\* the value of a u64 below 2^31, given by its digits
Num(ds) ==
    LET RECURSIVE Acc(_, _)
        Acc(k, v) == IF k > 16 THEN v ELSE Acc(k + 1, 16 * v + ds[k])
    IN  Acc(9, 0)

IsSmall(ds) == \A k \in 1..8 : ds[k] = 0

BoundsRejected == upper > 63 \/ lower > upper

\* bit j of (p >> lower) mod 2^(upper - lower + 1)
RangeBit(p, j) ==
    IF j <= upper - lower
    THEN (p[16 - ((j + lower) \div 4)] \div (2 ^ ((j + lower) % 4))) % 2
    ELSE 0

\* C12: get(lower, upper) fails with a Packet error exactly when upper > 63
\* or lower > upper; otherwise it returns (p >> lower) mod 2^(upper-lower+1),
\* get(0, 63) being p itself; on 0x00000000410C1AF8 get(0,7) = 0xF8,
\* get(8,15) = 0x1A, and get(5,2) and get(0,64) fail.
C12_GetRange ==
    (op = "ObdPacket::get" /\ Done) =>
        LET p == packet.val IN
        /\ BoundsRejected <=> ret.tag = "Err"
        /\ ret.tag = "Err" => ret.err \in {UpperMsg, LowerMsg}
        /\ ~BoundsRejected =>
              /\ ret.tag = "Ok"
              /\ \A j \in 0..63 :
                    (ret.val[16 - (j \div 4)] \div (2 ^ (j % 4))) % 2 = RangeBit(p, j)
              /\ \A k \in 1..16 : ret.val[k] \in 0..15
              /\ (IsSmall(p) /\ lower <= 30) =>
                    /\ IsSmall(ret.val)
                    /\ Num(ret.val) =
                          LET q == Num(p) \div (2 ^ lower)
                              w == upper - lower + 1
                          IN  IF w > 30 THEN q ELSE q % (2 ^ w)
              /\ (lower = 0 /\ upper = 63) => ret.val = p
        /\ p = ExamplePacket =>
              /\ (lower = 0 /\ upper = 7) => (IsSmall(ret.val) /\ Num(ret.val) = 248)
              /\ (lower = 8 /\ upper = 15) => (IsSmall(ret.val) /\ Num(ret.val) = 26)
              /\ (lower = 5 /\ upper = 2) => ret.tag = "Err"
              /\ (lower = 0 /\ upper = 64) => ret.tag = "Err"

\* the whole of a packet with bit 63 set was asked for and returned
C12_Witness ==
    /\ op = "ObdPacket::get" /\ Done
    /\ lower = 0 /\ upper = 63
    /\ packet.val[1] = 8
    /\ ret = packet

\* the call of write_timeout (1 for the first) that sent the k-th command
\* the adapter heard; 0 when write was called alone
HeardAttempt(k) ==
    LET at == CHOOSE i \in 1..Len(events) :
                  /\ events[i].e = "heard"
                  /\ Cardinality({j \in 1..i : events[j].e = "heard"}) = k
    IN  Cardinality({j \in 1..at : events[j].e = "write_timeout"})

\* the call the i-th byte of stream answers
ByteAttempt(i) == HeardAttempt(ReplyOf(i))

\* the j-th byte the last read was given is in a line it returned (the
\* replies are ASCII, so every run is a line)
InLine(j) == delivered[j] \notin {CR, LF, GT}

\* C13: once a call of write_timeout has returned TimedOut, no byte the
\* adapter sends in answer to it is in a line a later call returns: every
\* byte of the lines write_retry returns answers the call that returned them.
C13_NoLateByteInLine ==
    (op = "write_retry" /\ Done /\ ret.tag = "Ok") =>
        \A j \in 1..Len(delivered) :
            InLine(j) => ByteAttempt(Len(discarded) + j) = Len(attempts)

\* the reply to the command, up to its prompt
FirstReply == SubSeq(stream, 1, CHOOSE i \in 1..Len(stream) :
                                   stream[i] = GT /\ ReplyOf(i) = 1)

\* C14: write returns every line of the reply to its command up to the
\* prompt: no byte of the reply, all sent after the flush, is discarded by
\* the clear of the input buffer that read begins with.
C14_WholeReplyReturned ==
    (op = "write" /\ Done /\ ret.tag = "Ok") =>
        /\ discarded = <<>>
        /\ ret.val = Lines(FirstReply)

\* the last byte read was a prompt
ByPrompt == delivered # <<>> /\ Last(delivered) = GT

\* the predicate has answered false, and did so on the line that the last
\* byte read ended
ByPredicate ==
    /\ pred > 0 /\ Len(predCalls) = pred
    /\ delivered # <<>> /\ Last(delivered) \in {CR, LF, GT}
    /\ Last(predCalls) = Last(Runs(delivered, <<>>))

\* C15 as stated: read returns Ok only right after the predicate answered
\* false on a surfaced line or right after a '>' was read; a '>' makes any
\* pending non-empty buffer the last line returned and no byte is read after
\* it, whatever the predicate answers on that line; while the predicate
\* answers true, CR/LF-ended lines without a prompt never make read return.
C15_PromptFlushesAnyBuffer ==
    op = "read" =>
        /\ \A i \in 1..Len(delivered) :
              delivered[i] = GT => (i = Len(delivered) /\ ReadOk)
        /\ ReadOk => (ByPrompt \/ ByPredicate)
        /\ (ReadOk /\ ByPrompt /\ Last(Runs(delivered, <<>>)) # <<>>) =>
              /\ ret.val # <<>>
              /\ Last(ret.val) = Last(Runs(delivered, <<>>))
        /\ (ReadOk /\ (pred = 0 \/ Len(predCalls) < pred)) => ByPrompt

\* C15, amended: as above, but a '>' makes the pending non-empty buffer the
\* last line only if it is valid UTF-8, as for any line; the lines returned
\* at a prompt are the valid non-empty runs read, each given to the predicate.
C15_ReadEnds ==
    op = "read" =>
        /\ \A i \in 1..Len(delivered) :
              delivered[i] = GT => (i = Len(delivered) /\ ReadOk)
        /\ ReadOk => (ByPrompt \/ ByPredicate)
        /\ (ReadOk /\ ByPrompt) =>
              /\ ret.val = Lines(delivered)
              /\ predCalls = ret.val
        /\ (ReadOk /\ (pred = 0 \/ Len(predCalls) < pred)) => ByPrompt

\* a prompt surfaced the pending buffer, the predicate answered false on it,
\* and the byte that follows the prompt was left unread
C15_Witness ==
    /\ ReadOk /\ pred = 1
    /\ delivered = <<65, GT>>
    /\ ret.val = <<<<65>>>>
    /\ rx \o adapter = <<65>>

\* the position in events of the last open before position i
LastOpen(i) ==
    CHOOSE k \in 1..i : events[k].e = "open" /\ \A j \in (k + 1)..i : events[j].e # "open"

OpensUpTo(i) == Cardinality({k \in 1..i : events[k].e = "open"})

\* the warm-up reads begun between the last open before i and i
WarmUpsBefore(i) ==
    Cardinality({k \in LastOpen(i)..i : events[k].e = "warm_up"})

InCall(l) == \E i \in 1..Len(ctl) : ctl[i] = l

\* C16: in an attempt of from_path whose open succeeded with the counter at
\* n, exactly n warm-up reads are begun (none when n = 0) before ATZ is sent;
\* a warm-up read, whatever it returns, is followed by the next warm-up read
\* or by ATZ, and leaves the counter as it was.
C16_WarmUpsBeforeReset ==
    op = "from_path" =>
        /\ \A i \in 1..Len(events) :
              /\ events[i].e = "write_timeout" =>
                    /\ WarmUpsBefore(i) = OpensUpTo(i) - 1
                    /\ \A k \in (LastOpen(i) + 1)..(i - 1) : events[k].e = "warm_up"
              /\ events[i].e = "warm_up" =>
                    /\ WarmUpsBefore(i) <= OpensUpTo(i) - 1
                    /\ i < Len(events) => events[i + 1].e \in {"warm_up", "write_timeout"}
        /\ (Done /\ events # <<>>) => Last(events).e # "warm_up"
        /\ (InCall("fp_warm_timer") \/ At("fp_warm") \/ InCall("fp_atz")) =>
              /\ n = Len(attempts)
              /\ n = OpensUpTo(Len(events)) - 1
              /\ warm <= n
        /\ InCall("fp_atz") =>
              /\ WarmUpsBefore(Len(events)) = n
              /\ ~At("wt_call") => Last(events).e = "write_timeout"

\* the third attempt on an adapter that sends nothing: both warm-up reads
\* failed or timed out, and ATZ is being sent
C16_Witness ==
    /\ op = "from_path" /\ stream = <<>>
    /\ InCall("fp_atz") /\ n = 2
    /\ SubSeq(events, Len(events) - 3, Len(events))
         = <<Ev("open"), Ev("warm_up"), Ev("warm_up"), [e |-> "write_timeout", cmd |-> ATZ]>>

\* what the port was asked to do, in order
PortCalls == [i \in 1..Len(events) |-> events[i].e]

IsPrefix(a, b) == Len(a) <= Len(b) /\ SubSeq(b, 1, Len(a)) = a

\* C17: write_no_resp clears the output buffer, writes the command and one
\* CR, and flushes, in that order; a failed clear returns Clear with no write
\* and no flush, a failed write returns Write with no flush, a failed flush
\* returns Flush, and no step is done twice.
C17_ClearWriteFlush ==
    op = "write_no_resp" =>
        /\ \E whole \in { <<"clear_err">>,
                          <<"clear_ok", "write_err">>,
                          <<"clear_ok", "write_ok", "flush_err">>,
                          <<"clear_ok", "write_ok", "flush_ok">> } :
              /\ IsPrefix(PortCalls, whole)
              /\ Done => PortCalls = whole
        /\ \A i \in 1..Len(events) :
              events[i].e \in {"write_ok", "write_err"} =>
                  events[i].cmd = cmd \o <<CR>>
        /\ Done =>
              /\ Last(PortCalls) = "clear_err" <=> ret = Err("Clear")
              /\ Last(PortCalls) = "write_err" <=> ret = Err("Write")
              /\ Last(PortCalls) = "flush_err" <=> ret = Err("Flush")
              /\ Last(PortCalls) = "flush_ok" <=> ret.tag = "Ok"

\* the write of "AT\r" failed: Write is returned and nothing was flushed
C17_Witness ==
    /\ op = "write_no_resp" /\ Done
    /\ cmd = <<65, 84>>
    /\ PortCalls = <<"clear_ok", "write_err">>
    /\ events[2].cmd = <<65, 84, CR>>
    /\ ret = Err("Write")
    /\ wire = <<>>

\* C19: when write_no_resp returns Ok, every byte of the command and the CR
\* have been handed to the transport: a write that accepts fewer bytes than
\* it was given never leads to Ok with a truncated command on the wire.
C19_WholeCommandSent ==
    (op = "write_no_resp" /\ Done /\ ret.tag = "Ok") => wire = cmd \o <<CR>>

AllTimedOut == \A i \in 1..Len(attempts) : attempts[i] = TimedOut

\* C20 as stated: for every ceiling, 0 included, write_retry calls
\* write_timeout at most `retry` times, and exactly `retry` times when every
\* call times out.
C20_AtMostCeilingCalls ==
    op = "write_retry" =>
        /\ CountEv("write_timeout") <= retry
        /\ (Done /\ AllTimedOut) => CountEv("write_timeout") = retry

AtLeastOne(k) == IF k >= 1 THEN k ELSE 1

\* C20, amended: write_retry calls write_timeout at most `retry` times when
\* retry >= 1 and once when retry = 0, and exactly that many times when
\* every call times out.
C20_AtMostCeilingOrOne ==
    op = "write_retry" =>
        /\ CountEv("write_timeout") <= AtLeastOne(retry)
        /\ Len(attempts) <= CountEv("write_timeout")
        /\ (Done /\ AllTimedOut) =>
              /\ CountEv("write_timeout") = AtLeastOne(retry)
              /\ Len(attempts) = AtLeastOne(retry)
              /\ ret = TimedOut

\* with a ceiling of 0 one call was made, it timed out, TimedOut is returned
C20_Witness ==
    /\ op = "write_retry" /\ Done /\ retry = 0
    /\ CountEv("write_timeout") = 1
    /\ attempts = <<TimedOut>>
    /\ ret = TimedOut

\* C18: from_path always returns at last, a session or TimedOut, whatever the
\* ceiling, even when the adapter sends nothing: each warm-up read and each
\* reset exchange is abandoned when its deadline passes.
C18_ConnectReturns == <>Done

\* on an adapter that never sent a byte, three reset exchanges were abandoned
\* at their deadline and from_path returned TimedOut
C18_Witness ==
    /\ op = "from_path" /\ Done
    /\ stream = <<>> /\ retry = 3
    /\ attempts = <<TimedOut, TimedOut, TimedOut>>
    /\ CountEv("warm_up") = 3
    /\ ret = TimedOut

====
